---- MODULE Spec2Model ----
(***************************************************************************)
(* Paper wallet / automated order engine of src/data/wallet.py             *)
(* (class PaperWallet).                                                    *)
(*                                                                         *)
(* Numbers.  Python floats are modelled as exact rationals [n, d] in       *)
(* lowest terms (d > 0); None is the record with d = 0.  Position amounts  *)
(* are counted in units of 1e-8 coin, so that the dust threshold 1e-8 of   *)
(* the code is the rational 1.  USD amounts (balance, usd_value) are in     *)
(* units of 1000 USD, so that the default balance 10000.0 is 10 and two    *)
(* decimals of a USD amount are five decimals here; prices are in units of *)
(* 1000 USD per 1e-8 coin.  Nothing else in the code depends on the scale. *)
(* Strings are sequences of one-character strings.                         *)
(***************************************************************************)
EXTENDS Integers, Sequences, FiniteSets, TLC

----------------------------------------------------------------------------
(* Rational arithmetic: the float operators +, -, *, /, abs, max, min, <   *)

RECURSIVE Gcd(_, _)
Gcd(a, b) == IF b = 0 THEN a ELSE Gcd(b, a % b)

IAbs(i) == IF i < 0 THEN -i ELSE i

Rat(n, d) ==
    LET s == IF d < 0 THEN -1 ELSE 1
        g == Gcd(IAbs(n), IAbs(d))
    IN  [n |-> (s * n) \div g, d |-> (s * d) \div g]

None == [n |-> 0, d |-> 0]
Zero == [n |-> 0, d |-> 1]
Int2R(i) == [n |-> i, d |-> 1]

(* operands are reduced by their common factors before they are multiplied *)
RAdd(x, y) ==
    LET g == Gcd(x.d, y.d)
    IN  Rat(x.n * (y.d \div g) + y.n * (x.d \div g), (x.d \div g) * y.d)
RSub(x, y) ==
    LET g == Gcd(x.d, y.d)
    IN  Rat(x.n * (y.d \div g) - y.n * (x.d \div g), (x.d \div g) * y.d)
RMul(x, y) ==
    LET g1 == Gcd(IAbs(x.n), y.d)
        g2 == Gcd(IAbs(y.n), x.d)
    IN  Rat((x.n \div g1) * (y.n \div g2), (x.d \div g2) * (y.d \div g1))
RDiv(x, y) == RMul(x, Rat(y.d, y.n))
RNeg(x) == [n |-> -x.n, d |-> x.d]
RAbs(x) == [n |-> IAbs(x.n), d |-> x.d]
RLt(x, y) ==
    LET g == Gcd(x.d, y.d) IN x.n * (y.d \div g) < y.n * (x.d \div g)
RLe(x, y) ==
    LET g == Gcd(x.d, y.d) IN x.n * (y.d \div g) <= y.n * (x.d \div g)
RGt(x, y) == RLt(y, x)
RGe(x, y) == RLe(y, x)
RMax(x, y) == IF RLt(x, y) THEN y ELSE x
RMin(x, y) == IF RLt(y, x) THEN y ELSE x

(* Python truthiness of an optional float: None and 0.0 are falsy.         *)
Truthy(x) == x # None /\ x.n # 0

(* x or None                                                               *)
OrNone(x) == IF Truthy(x) THEN x ELSE None

(* float(f"{x:.0f}") on the model's scale: nearest integer, ties to even.  *)
RoundInt(x) ==
    LET fl == x.n \div x.d
        r2 == 2 * (x.n - fl * x.d)
    IN  IF r2 < x.d THEN fl
        ELSE IF r2 > x.d THEN fl + 1
        ELSE IF fl % 2 = 0 THEN fl ELSE fl + 1

(* float(f"{amount:.8f}"): amounts are in units of 1e-8.                   *)
Round8(amount) == Int2R(RoundInt(amount))

(* float(f"{usd_value:.2f}"): USD amounts are in units of 1000 USD.        *)
Round2(usd_value) == Rat(RoundInt(RMul(usd_value, Int2R(100000))), 100000)

(* abs(amount) < 1e-8, in units of 1e-8                                    *)
DustThreshold == 1
IsDust_zero_only(amount) == amount = Zero
IsDust(amount) == RLt(RAbs(amount), Int2R(DustThreshold))

----------------------------------------------------------------------------
(* The wallet: W = [data, disk]; data is self.data, disk the JSON file.    *)
(* data = [balance_usd, positions, history]; positions is a function from  *)
(* the symbols seen so far to position records; a key a position dict      *)
(* lacks reads as None / [] (dict.get), and is stored so here.             *)

FreshPos(price) ==
    [amount |-> Zero, avg_price |-> Zero,
     highest_price |-> price, lowest_price |-> price,
     stop_loss |-> None, take_profit |-> None,
     trailing_stop_percent |-> None, scaling_targets |-> <<>>]

(* symbol not in positions or abs(positions[symbol].get("amount", 0)) < 1e-8 *)
IsNewPos(data, symbol) ==
    \/ symbol \notin DOMAIN data.positions
    \/ IsDust(data.positions[symbol].amount)

(* self.data["positions"][symbol] = pos                                    *)
PutPos(positions, symbol, pos) ==
    [s \in DOMAIN positions \cup {symbol} |->
        IF s = symbol THEN pos ELSE positions[s]]

_save_wallet(W) == [W EXCEPT !.disk = W.data]

_record_trade_first(W, symbol, t_type, price, amount, usd_value) ==
    LET trade == [pair |-> symbol, type |-> t_type, price |-> price,
                  amount |-> Round8(amount), total_usd |-> Round2(usd_value)]
    IN  _save_wallet([W EXCEPT !.data.history = <<trade>> \o @])
_record_trade(W, symbol, t_type, price, amount, usd_value) ==
    LET trade == [pair |-> symbol, type |-> t_type, price |-> price,
                  amount |-> Round8(amount), total_usd |-> Round2(usd_value)]
    IN  _save_wallet([W EXCEPT !.data.history = Append(@, trade)])

(* self.data["balance_usd"] -= usd_value / += usd_value                    *)
Debit_as_credit(balance_usd, usd_value) == RAdd(balance_usd, usd_value)
Debit(balance_usd, usd_value) == RSub(balance_usd, usd_value)
Credit(balance_usd, usd_value) == RAdd(balance_usd, usd_value)

(* the balance check of buy                                                *)
BuyRejected_any_side(pos, usd_value, balance_usd) == RGt(usd_value, balance_usd)
BuyRejected(pos, usd_value, balance_usd) ==
    RGe(pos.amount, Zero) /\ RGt(usd_value, balance_usd)

(* ((old_amount * old_avg) + (amount * price)) / total                     *)
BlendAvg_unweighted(old_amount, old_avg, amount, price, total) ==
    IF old_amount = Zero THEN price ELSE RDiv(RAdd(old_avg, price), Int2R(2))
BlendAvg(old_amount, old_avg, amount, price, total) ==
    RDiv(RAdd(RMul(old_amount, old_avg), RMul(amount, price)), total)

(* the long branch of buy: increase (or open) a long                       *)
BuyIncrease(pos, price, amount, is_new_pos) ==
    LET total_amount == RAdd(pos.amount, amount)
    IN  [pos EXCEPT
            !.avg_price = BlendAvg(pos.amount, pos.avg_price, amount, price,
                                   total_amount),
            !.amount = total_amount,
            !.highest_price = IF is_new_pos THEN price
                              ELSE RMax(pos.highest_price, price)]

(* the short branch of buy: "Closing a short"                              *)
BuyCover_reprice(pos, price, amount) ==
    [pos EXCEPT !.amount = RAdd(pos.amount, amount),
                !.avg_price = IF RGt(RAdd(pos.amount, amount), Zero)
                              THEN price ELSE @]
BuyCover(pos, price, amount) == [pos EXCEPT !.amount = RAdd(pos.amount, amount)]

(* buy returns [W, ok, raised]; raised is a ZeroDivisionError, thrown after *)
(* the debit and before the position is stored.                            *)
buy(W, symbol, price, amount) ==
    LET usd_value == RMul(amount, price)
        is_new_pos == IsNewPos(W.data, symbol)
        pos == IF is_new_pos THEN FreshPos(price) ELSE W.data.positions[symbol]
        W1 == [W EXCEPT !.data.balance_usd = Debit(@, usd_value)]
    IN  IF BuyRejected(pos, usd_value, W.data.balance_usd)
        THEN [W |-> W, ok |-> FALSE, raised |-> FALSE]
        ELSE IF RGe(pos.amount, Zero) /\ RAdd(pos.amount, amount) = Zero
        THEN [W |-> W1, ok |-> FALSE, raised |-> TRUE]
        ELSE LET pos2 == IF RGe(pos.amount, Zero)
                         THEN BuyIncrease(pos, price, amount, is_new_pos)
                         ELSE BuyCover(pos, price, amount)
                 W2 == [W1 EXCEPT !.data.positions = PutPos(@, symbol, pos2)]
             IN  [W |-> _record_trade(W2, symbol, "BUY", price, amount, usd_value),
                  ok |-> TRUE, raised |-> FALSE]

(* the short branch of sell: increase (or open) a short                    *)
SellIncrease_high(pos, price, amount, is_new_pos) ==
    LET total_amount == RSub(pos.amount, amount)
    IN  [pos EXCEPT
            !.avg_price = BlendAvg(RAbs(pos.amount), pos.avg_price, amount,
                                   price, RAbs(total_amount)),
            !.amount = total_amount,
            !.lowest_price = IF is_new_pos THEN price
                             ELSE RMax(pos.lowest_price, price)]
SellIncrease(pos, price, amount, is_new_pos) ==
    LET total_amount == RSub(pos.amount, amount)
    IN  [pos EXCEPT
            !.avg_price = BlendAvg(RAbs(pos.amount), pos.avg_price, amount,
                                   price, RAbs(total_amount)),
            !.amount = total_amount,
            !.lowest_price = IF is_new_pos THEN price
                             ELSE RMin(pos.lowest_price, price)]

(* the long branch of sell: "Closing a long"                               *)
SellReduce(pos, price, amount) == [pos EXCEPT !.amount = RSub(pos.amount, amount)]

sell(W, symbol, price, amount) ==
    LET usd_value == RMul(amount, price)
        is_new_pos == IsNewPos(W.data, symbol)
        pos == IF is_new_pos THEN FreshPos(price) ELSE W.data.positions[symbol]
        W1 == [W EXCEPT !.data.balance_usd = Credit(@, usd_value)]
    IN  IF RLe(pos.amount, Zero) /\ RSub(pos.amount, amount) = Zero
        THEN [W |-> W1, ok |-> FALSE, raised |-> TRUE]
        ELSE LET pos2 == IF RLe(pos.amount, Zero)
                         THEN SellIncrease(pos, price, amount, is_new_pos)
                         ELSE SellReduce(pos, price, amount)
                 W2 == [W1 EXCEPT !.data.positions = PutPos(@, symbol, pos2)]
             IN  [W |-> _record_trade(W2, symbol, "SELL", price, amount, usd_value),
                  ok |-> TRUE, raised |-> FALSE]

(* the "Clear params" update of close_position                             *)
ClearParams_keep_stop(pos) ==
    [pos EXCEPT !.take_profit = None,
                !.trailing_stop_percent = None, !.scaling_targets = <<>>,
                !.amount = Zero]
ClearParams(pos) ==
    [pos EXCEPT !.stop_loss = None, !.take_profit = None,
                !.trailing_stop_percent = None, !.scaling_targets = <<>>,
                !.amount = Zero]

(* close_position returns [W, ok, raised]: ok is the success flag of the   *)
(* opposing trade; raised is a KeyError (unknown symbol) or the            *)
(* ZeroDivisionError of the trade, either of which skips the clearing.     *)
close_position(W, symbol, current_price) ==
    IF symbol \notin DOMAIN W.data.positions
    THEN [W |-> W, ok |-> FALSE, raised |-> TRUE]
    ELSE LET amount == W.data.positions[symbol].amount
             result == IF RGt(amount, Zero)
                       THEN sell(W, symbol, current_price, amount)
                       ELSE buy(W, symbol, current_price, RAbs(amount))
             cleared == [result.W EXCEPT
                            !.data.positions[symbol] = ClearParams(@)]
         IN  IF result.raised THEN result
             ELSE [W |-> _save_wallet(cleared), ok |-> result.ok,
                   raised |-> FALSE]

----------------------------------------------------------------------------
(* check_automated_orders, "the heartbeat"                                 *)

(* 1. Update Trailing Highs/Lows                                           *)
UpdateWatermark_both(pos, current_price) ==
    [pos EXCEPT !.highest_price = RMax(@, current_price),
                !.lowest_price = RMin(@, current_price)]
UpdateWatermark_low_only(pos, current_price) ==
    [pos EXCEPT !.lowest_price = RMin(@, current_price)]
UpdateWatermark(pos, current_price) ==
    IF RGt(pos.amount, Zero)
    THEN [pos EXCEPT !.highest_price = RMax(@, current_price)]
    ELSE [pos EXCEPT !.lowest_price = RMin(@, current_price)]

(* 2. the stop-loss condition                                              *)
StopLossHit_long_rule(amount, current_price, sl) ==
    /\ Truthy(sl)
    /\ \/ RGt(amount, Zero) /\ RLe(current_price, sl)
       \/ RLt(amount, Zero) /\ RLe(current_price, sl)
StopLossHit(amount, current_price, sl) ==
    /\ Truthy(sl)
    /\ \/ RGt(amount, Zero) /\ RLe(current_price, sl)
       \/ RLt(amount, Zero) /\ RGe(current_price, sl)

(* 3. the take-profit condition                                            *)
TakeProfitHit_strict(amount, current_price, tp) ==
    /\ Truthy(tp)
    /\ \/ RGt(amount, Zero) /\ RGt(current_price, tp)
       \/ RLt(amount, Zero) /\ RLt(current_price, tp)
TakeProfitHit(amount, current_price, tp) ==
    /\ Truthy(tp)
    /\ \/ RGt(amount, Zero) /\ RGe(current_price, tp)
       \/ RLt(amount, Zero) /\ RLe(current_price, tp)

(* 4. the trailing-stop condition, on the position with its watermark      *)
(* already updated                                                         *)
Hundred == Int2R(100)
One == Int2R(1)
TrailingHit(pos, amount, current_price) ==
    LET tsl_pct == pos.trailing_stop_percent
    IN  /\ Truthy(tsl_pct)
        /\ IF RGt(amount, Zero)
           THEN RLe(current_price,
                    RMul(pos.highest_price, RSub(One, RDiv(tsl_pct, Hundred))))
           ELSE RGe(current_price,
                    RMul(pos.lowest_price, RAdd(One, RDiv(tsl_pct, Hundred))))

(* 5. the condition of one scaling target                                  *)
TargetHit(amount, current_price, target) ==
    \/ RGt(amount, Zero) /\ RGe(current_price, target)
    \/ RLt(amount, Zero) /\ RLe(current_price, target)

(* index of the first target of the list that is hit, 0 when none is       *)
RECURSIVE FirstHit(_, _, _, _)
FirstHit(targets, amount, current_price, i) ==
    IF i > Len(targets) THEN 0
    ELSE IF TargetHit(amount, current_price, targets[i]) THEN i
    ELSE FirstHit(targets, amount, current_price, i + 1)

(* list.remove(target): drops the first element equal to target            *)
RECURSIVE ListRemove(_, _)
ListRemove(list, x) ==
    IF list = <<>> THEN <<>>
    ELSE IF Head(list) = x THEN Tail(list)
    ELSE <<Head(list)>> \o ListRemove(Tail(list), x)

Half == Rat(1, 2)

(* the scale-out step: trade 50% of the magnitude seen at entry, remove    *)
(* the target from the position's list, save                               *)
ScaleOut_drop_all(W, symbol, current_price, amount, target) ==
    LET sell_amount == RMul(RAbs(amount), Half)
        traded == IF RGt(amount, Zero)
                  THEN sell(W, symbol, current_price, sell_amount)
                  ELSE buy(W, symbol, current_price, sell_amount)
        removed == [traded.W EXCEPT
                       !.data.positions[symbol].scaling_targets = <<>>]
    IN  IF traded.raised THEN [W |-> traded.W, msg |-> "None", raised |-> TRUE]
        ELSE [W |-> _save_wallet(removed), msg |-> "ScaledOut",
              raised |-> FALSE]
ScaleOut(W, symbol, current_price, amount, target) ==
    LET sell_amount == RMul(RAbs(amount), Half)
        traded == IF RGt(amount, Zero)
                  THEN sell(W, symbol, current_price, sell_amount)
                  ELSE buy(W, symbol, current_price, sell_amount)
        removed == [traded.W EXCEPT
                       !.data.positions[symbol].scaling_targets =
                           ListRemove(@, target)]
    IN  IF traded.raised THEN [W |-> traded.W, msg |-> "None", raised |-> TRUE]
        ELSE [W |-> _save_wallet(removed), msg |-> "ScaledOut",
              raised |-> FALSE]

(* the rule that fires, in the order of the code: stop-loss, take-profit,  *)
(* trailing stop, scaling targets; "None" when no rule does.  pos is the   *)
(* position with its watermark updated, amount its amount at entry.        *)
FiringRule_scale_first(pos, amount, current_price) ==
    IF StopLossHit(amount, current_price, pos.stop_loss) THEN "StopLoss"
    ELSE IF TakeProfitHit(amount, current_price, pos.take_profit)
    THEN "TakeProfit"
    ELSE IF FirstHit(pos.scaling_targets, amount, current_price, 1) > 0
    THEN "ScaledOut"
    ELSE IF TrailingHit(pos, amount, current_price) THEN "TrailingStop"
    ELSE "None"
FiringRule_profit_first(pos, amount, current_price) ==
    IF TakeProfitHit(amount, current_price, pos.take_profit) THEN "TakeProfit"
    ELSE IF StopLossHit(amount, current_price, pos.stop_loss) THEN "StopLoss"
    ELSE IF TrailingHit(pos, amount, current_price) THEN "TrailingStop"
    ELSE IF FirstHit(pos.scaling_targets, amount, current_price, 1) > 0
    THEN "ScaledOut"
    ELSE "None"
FiringRule(pos, amount, current_price) ==
    IF StopLossHit(amount, current_price, pos.stop_loss) THEN "StopLoss"
    ELSE IF TakeProfitHit(amount, current_price, pos.take_profit)
    THEN "TakeProfit"
    ELSE IF TrailingHit(pos, amount, current_price) THEN "TrailingStop"
    ELSE IF FirstHit(pos.scaling_targets, amount, current_price, 1) > 0
    THEN "ScaledOut"
    ELSE "None"

(* the result of a full close triggered by a rule                          *)
Triggered(closed, msg) ==
    [W |-> closed.W, msg |-> IF closed.raised THEN "None" ELSE msg,
     raised |-> closed.raised]

(* check_automated_orders returns [W, msg, raised]; msg is "None" or names *)
(* the rule of the message returned                                        *)
check_automated_orders(W, symbol, current_price) ==
    IF \/ symbol \notin DOMAIN W.data.positions
       \/ IsDust(W.data.positions[symbol].amount)
    THEN [W |-> W, msg |-> "None", raised |-> FALSE]
    ELSE
    LET amount == W.data.positions[symbol].amount
        pos == UpdateWatermark(W.data.positions[symbol], current_price)
        W1 == [W EXCEPT !.data.positions[symbol] = pos]
        rule == FiringRule(pos, amount, current_price)
        hit == FirstHit(pos.scaling_targets, amount, current_price, 1)
    IN  IF rule \in {"StopLoss", "TakeProfit", "TrailingStop"}
        THEN Triggered(close_position(W1, symbol, current_price), rule)
        ELSE IF rule = "ScaledOut"
        THEN ScaleOut(W1, symbol, current_price, amount, pos.scaling_targets[hit])
        ELSE [W |-> _save_wallet(W1), msg |-> "None", raised |-> FALSE]

----------------------------------------------------------------------------
(* Python values handed in by the caller: a number, a string, a list, or   *)
(* None / an absent key.                                                   *)

PyNone == [t |-> "none", v |-> None, s |-> <<>>, l |-> <<>>]
PyNum(x) == [t |-> "num", v |-> x, s |-> <<>>, l |-> <<>>]
PyStr(chars) == [t |-> "str", v |-> None, s |-> chars, l |-> <<>>]
PyList(items) == [t |-> "list", v |-> None, s |-> <<>>, l |-> items]

Digits == <<"0", "1", "2", "3", "4", "5", "6", "7", "8", "9">>
IsDigit(c) == \E i \in 1..10 : Digits[i] = c
DigitVal(c) == (CHOOSE i \in 1..10 : Digits[i] = c) - 1

(* str.replace(c, '')                                                      *)
RECURSIVE RemoveChar(_, _)
RemoveChar(str, c) ==
    IF str = <<>> THEN <<>>
    ELSE IF Head(str) = c THEN RemoveChar(Tail(str), c)
    ELSE <<Head(str)>> \o RemoveChar(Tail(str), c)

(* str.strip(), for blanks                                                 *)
RECURSIVE LStrip(_)
LStrip(str) ==
    IF str # <<>> /\ Head(str) = " " THEN LStrip(Tail(str)) ELSE str
RECURSIVE RStrip(_)
RStrip(str) ==
    IF str # <<>> /\ str[Len(str)] = " "
    THEN RStrip(SubSeq(str, 1, Len(str) - 1)) ELSE str
Strip(str) == RStrip(LStrip(str))

(* str.upper(), on the letters the inputs use                              *)
Lower == <<"b", "u", "y", "s", "e", "l", "w", "a", "i", "t", "h", "o", "d">>
Upper == <<"B", "U", "Y", "S", "E", "L", "W", "A", "I", "T", "H", "O", "D">>
UpperChar(c) ==
    IF \E i \in 1..Len(Lower) : Lower[i] = c
    THEN Upper[CHOOSE i \in 1..Len(Lower) : Lower[i] = c]
    ELSE c
StrUpper(str) == [i \in 1..Len(str) |-> UpperChar(str[i])]

(* sub in str                                                              *)
Contains(sub, str) ==
    \E i \in 1..(Len(str) - Len(sub) + 1) :
        SubSeq(str, i, i + Len(sub) - 1) = sub

RECURSIVE DigitsValue(_)
DigitsValue(str) ==
    IF str = <<>> THEN 0
    ELSE 10 * DigitsValue(SubSeq(str, 1, Len(str) - 1)) + DigitVal(str[Len(str)])

RECURSIVE Pow10(_)
Pow10(k) == IF k = 0 THEN 1 ELSE 10 * Pow10(k - 1)

(* float(str) on decimal literals: blanks around, an optional sign, digits *)
(* with at most one point and at least one digit; anything else is a       *)
(* ValueError (ok = FALSE).  Exponents, inf, nan and underscores are not   *)
(* among the characters of the inputs.                                     *)
AllDigits(str) == \A i \in 1..Len(str) : IsDigit(str[i])

(* index of the first point, Len + 1 when there is none                    *)
DotIndex(num) ==
    IF \E i \in 1..Len(num) : num[i] = "."
    THEN CHOOSE i \in 1..Len(num) :
            num[i] = "." /\ \A k \in 1..(i - 1) : num[k] # "."
    ELSE Len(num) + 1

(* the literal with integer part ip and fraction part fp                   *)
ParseParts(ip, fp, neg) ==
    IF Len(ip) + Len(fp) >= 1 /\ AllDigits(ip) /\ AllDigits(fp)
    THEN [ok |-> TRUE,
          v |-> Rat((IF neg THEN -1 ELSE 1)
                        * (DigitsValue(ip) * Pow10(Len(fp)) + DigitsValue(fp)),
                    Pow10(Len(fp)))]
    ELSE [ok |-> FALSE, v |-> Zero]

ParseUnsigned(num, neg, dot) ==
    ParseParts(SubSeq(num, 1, dot - 1), SubSeq(num, dot + 1, Len(num)), neg)

ParseStripped(body) ==
    IF body # <<>> /\ Head(body) \in {"-", "+"}
    THEN ParseUnsigned(Tail(body), Head(body) = "-", DotIndex(Tail(body)))
    ELSE ParseUnsigned(body, FALSE, DotIndex(body))

ParseFloat(str) == ParseStripped(Strip(str))

(* parsed.v if the literal parsed, else 0.0                                *)
ValueOrZero(parsed) == IF parsed.ok THEN parsed.v ELSE Zero

(* _sanitize_price: '$76,877.00' -> 76877.0; unparseable or non-numeric    *)
(* input -> 0.0                                                            *)
_sanitize_price(price_val) ==
    IF price_val.t = "num" THEN price_val.v
    ELSE IF price_val.t = "str"
    THEN ValueOrZero(ParseFloat(
             Strip(RemoveChar(RemoveChar(price_val.s, "$"), ","))))
    ELSE Zero

(* float(x or 0): [ok, v]; ok = FALSE is the ValueError / TypeError        *)
FloatOrZero(x) ==
    IF x.t = "none" THEN [ok |-> TRUE, v |-> Zero]
    ELSE IF x.t = "num" THEN [ok |-> TRUE, v |-> x.v]
    ELSE IF x.t = "str"
    THEN IF x.s = <<>> THEN [ok |-> TRUE, v |-> Zero] ELSE ParseFloat(x.s)
    ELSE IF x.l = <<>> THEN [ok |-> TRUE, v |-> Zero]
    ELSE [ok |-> FALSE, v |-> Zero]

(* [_sanitize_price(t) for t in raw_targets if _sanitize_price(t) > 0]     *)
KeepPositive(x) == IF RGt(x, Zero) THEN <<x>> ELSE <<>>
RECURSIVE SanitizeTargets(_)
SanitizeTargets(raw) ==
    IF raw = <<>> THEN <<>>
    ELSE KeepPositive(_sanitize_price(Head(raw))) \o SanitizeTargets(Tail(raw))

----------------------------------------------------------------------------
(* execute_strategy                                                        *)

BTCUSDT == <<"B", "T", "C", "U", "S", "D", "T">>
ETHUSDT == <<"E", "T", "H", "U", "S", "D", "T">>
WAIT == <<"W", "A", "I", "T">>
BUY == <<"B", "U", "Y">>
SELL == <<"S", "E", "L", "L">>

(* str(strategy.get('action', 'WAIT')).upper()                             *)
ActionRaw_as_given(strategy) ==
    IF strategy.action.t = "str" THEN strategy.action.s ELSE WAIT
ActionRaw(strategy) ==
    StrUpper(IF strategy.action.t = "str" THEN strategy.action.s ELSE WAIT)

(* params.get('symbol', 'BTCUSDT').replace('/', '')                        *)
StrategySymbol(strategy) ==
    RemoveChar(IF strategy.symbol.t = "str" THEN strategy.symbol.s ELSE BTCUSDT,
               "/")

(* override_usd if override_usd is not None else balance * 0.1             *)
UsdAmount_whole(balance, override_usd) ==
    IF override_usd # None THEN override_usd ELSE balance
UsdAmount(balance, override_usd) ==
    IF override_usd # None THEN override_usd ELSE RMul(balance, Rat(1, 10))

(* usd_amount > balance and "BUY" in action_raw                            *)
SizeRejected(usd_amount, balance, action_raw) ==
    RGt(usd_amount, balance) /\ Contains(BUY, action_raw)

(* the stop_loss / take_profit assignments of the attach step              *)
AttachStatic_keep_old(pos, strategy) ==
    [pos EXCEPT
        !.stop_loss = IF Truthy(_sanitize_price(strategy.stop_loss))
                      THEN _sanitize_price(strategy.stop_loss) ELSE @,
        !.take_profit = IF Truthy(_sanitize_price(strategy.take_profit))
                        THEN _sanitize_price(strategy.take_profit) ELSE @]
AttachStatic(pos, strategy) ==
    [pos EXCEPT !.stop_loss = OrNone(_sanitize_price(strategy.stop_loss)),
                !.take_profit = OrNone(_sanitize_price(strategy.take_profit))]

(* the trailing_stop_percent / scaling_targets assignments; tsl is the     *)
(* value of float(params.get("trailing_stop_percent") or 0)                *)
AttachRest(pos, strategy, tsl) ==
    [pos EXCEPT
        !.trailing_stop_percent = OrNone(tsl),
        !.scaling_targets =
            IF strategy.scaling_targets.t = "list"
            THEN SanitizeTargets(strategy.scaling_targets.l)
            ELSE <<>>]

(* "Attach automated params to the position", W1 being the wallet with     *)
(* stop_loss and take_profit set: the float() of trailing_stop_percent can *)
(* raise then, before anything is saved                                    *)
AttachTrailing(W1, symbol, strategy, tsl) ==
    IF ~tsl.ok
    THEN [W |-> W1, raised |-> TRUE]
    ELSE [W |-> _save_wallet(
                    [W1 EXCEPT !.data.positions[symbol] =
                                   AttachRest(@, strategy, tsl.v)]),
          raised |-> FALSE]

Attach(W, symbol, strategy) ==
    AttachTrailing([W EXCEPT !.data.positions[symbol] = AttachStatic(@, strategy)],
                   symbol, strategy,
                   FloatOrZero(strategy.trailing_stop_percent))

(* the result of execute_strategy: [W, ok, msg, raised] and, for the       *)
(* record of the call, the symbol, price and amount it worked out          *)
Outcome(W, ok, msg, raised, symbol, price, amount) ==
    [W |-> W, ok |-> ok, msg |-> msg, raised |-> raised,
     symbol |-> symbol, price |-> price, amount |-> amount]

(* "if success:" and the return                                            *)
AfterAttach(attached, is_buy, symbol, price, amount) ==
    IF attached.raised
    THEN Outcome(attached.W, FALSE, "Raised", TRUE, symbol, price, amount)
    ELSE Outcome(attached.W, TRUE, IF is_buy THEN "Bought" ELSE "Sold", FALSE,
                 symbol, price, amount)

AfterTraded(traded, strategy, is_buy, symbol, price, amount) ==
    IF traded.raised
    THEN Outcome(traded.W, FALSE, "Raised", TRUE, symbol, price, amount)
    ELSE IF ~traded.ok
    THEN Outcome(traded.W, FALSE, "InsufficientBalance", FALSE, symbol, price,
                 amount)
    ELSE AfterAttach(Attach(traded.W, symbol, strategy), is_buy, symbol, price,
                     amount)

(* amount = usd_amount / price and the delegation to buy or sell           *)
Delegate_sell_otherwise(W, strategy, action_raw, symbol, price, amount) ==
    IF Contains(BUY, action_raw)
    THEN AfterTraded(buy(W, symbol, price, amount), strategy, TRUE, symbol,
                     price, amount)
    ELSE AfterTraded(sell(W, symbol, price, amount), strategy, FALSE, symbol,
                     price, amount)
Delegate(W, strategy, action_raw, symbol, price, amount) ==
    IF Contains(BUY, action_raw)
    THEN AfterTraded(buy(W, symbol, price, amount), strategy, TRUE, symbol,
                     price, amount)
    ELSE IF Contains(SELL, action_raw)
    THEN AfterTraded(sell(W, symbol, price, amount), strategy, FALSE, symbol,
                     price, amount)
    ELSE Outcome(W, FALSE, "NotRecognized", FALSE, symbol, price, amount)

(* the sizing and its check                                                *)
Sized(W, strategy, action_raw, symbol, price, balance, usd_amount) ==
    IF SizeRejected(usd_amount, balance, action_raw)
    THEN Outcome(W, FALSE, "NotEnoughBalance", FALSE, symbol, price, Zero)
    ELSE Delegate(W, strategy, action_raw, symbol, price,
                  RDiv(usd_amount, price))

Validated(W, strategy, override_usd, action_raw, symbol, price, balance) ==
    IF RLe(price, Zero)
    THEN Outcome(W, FALSE, "InvalidEntryPrice", FALSE, symbol, price, Zero)
    ELSE IF RLe(balance, Zero)
    THEN Outcome(W, FALSE, "InsufficientAccountBalance", FALSE, symbol, price,
                 Zero)
    ELSE Sized(W, strategy, action_raw, symbol, price, balance,
               UsdAmount(balance, override_usd))

execute_strategy(W, strategy, override_usd) ==
    Validated(W, strategy, override_usd, ActionRaw(strategy),
              StrategySymbol(strategy), _sanitize_price(strategy.entry_price),
              W.data.balance_usd)

----------------------------------------------------------------------------
(* Inputs of the calls                                                     *)

Symbols == {BTCUSDT, ETHUSDT}

(* the default starting state of _load_wallet: 10000.0 USD                 *)
DefaultBalance == 10
DefaultData ==
    [balance_usd |-> Int2R(DefaultBalance), positions |-> <<>>,
     history |-> <<>>]

(* the calls considered leave at most MaxTrades records in the history    *)
MaxTrades == 3

LowPrice == Int2R(1)
HighPrice == Int2R(5)
Prices == {LowPrice, HighPrice}

(* 0.5e-8 (below the dust threshold) and 4e-8                              *)
Amounts == {Half, Int2R(4)}

(* (symbol, price, amount) of the direct buy calls and sell calls          *)
BuyInputs ==
    ({BTCUSDT} \X Prices \X Amounts) \cup {<<ETHUSDT, LowPrice, Int2R(4)>>}
SellInputs ==
    {<<BTCUSDT, LowPrice, Half>>, <<BTCUSDT, LowPrice, Int2R(4)>>,
     <<BTCUSDT, HighPrice, Int2R(4)>>}

(* (symbol, current_price) of close_position and check_automated_orders    *)
TickInputs == {BTCUSDT} \X Prices

Strategy(action, symbol, entry_price, stop_loss, take_profit, tsl, targets) ==
    [action |-> action, symbol |-> symbol, entry_price |-> entry_price,
     stop_loss |-> stop_loss, take_profit |-> take_profit,
     trailing_stop_percent |-> tsl, scaling_targets |-> targets]

NoStrategy == Strategy(PyNone, PyNone, PyNone, PyNone, PyNone, PyNone, PyNone)

(* " $1.00 " and "$1,000"                                                  *)
StrOne == <<" ", "$", "1", ".", "0", "0", " ">>
StrThousand == <<"$", "1", ",", "0", "0", "0">>

(* S1, S2: a long with stop-loss 5 above take-profit 1 and a short with    *)
(* stop-loss 1 below take-profit 5: both rules are reached at 1 and at 5.  *)
(* S3, S4: a long and a short whose stop-loss (0.5, "$1,000") is out of    *)
(* reach and whose take-profit is reached at 5, at 1, with a trailing stop *)
(* of 50% and scaling targets reached at 1, at 5; the long has the target  *)
(* 1 twice, after a target 5 that the take-profit keeps out of reach.      *)
(* S5: a long with a trailing stop of 50% alone; its stop-loss is absent,  *)
(* its take-profit does not parse and none of its targets is positive.     *)
(* S6: an action that is neither a buy nor a sell, at an entry price that  *)
(* does not parse.  S7: no action at all, at an entry price of 1.          *)
(* S8: a long whose trailing stop, "5%", is no number for float().         *)
S1 ==
    Strategy(PyStr(<<"b", "u", "y">>),
             PyStr(<<"B", "T", "C", "/", "U", "S", "D", "T">>),
             PyStr(StrOne), PyNum(HighPrice), PyStr(StrOne), PyNone, PyNone)
S2 ==
    Strategy(PyStr(SELL), PyNone, PyNum(LowPrice), PyStr(StrOne),
             PyNum(HighPrice), PyNone, PyNone)
S3 ==
    Strategy(PyStr(BUY), PyNone, PyNum(LowPrice), PyNum(Half),
             PyNum(HighPrice), PyNum(Int2R(50)),
             PyList(<<PyNum(HighPrice), PyNum(LowPrice), PyStr(StrOne)>>))
S4 ==
    Strategy(PyStr(SELL), PyNone, PyNum(LowPrice), PyStr(StrThousand),
             PyNum(LowPrice), PyStr(<<"5", "0">>),
             PyList(<<PyNum(HighPrice)>>))

S5 ==
    Strategy(PyStr(<<"B", "u", "y", " ", "n", "o", "w">>), PyNone, PyNum(LowPrice), PyNone,
             PyStr(<<"n", "/", "a">>), PyNum(Int2R(50)),
             PyList(<<PyStr(<<"x">>), PyNum(Zero)>>))

S6 ==
    Strategy(PyStr(<<"h", "o", "l", "d">>), PyNone, PyStr(<<"n", "/", "a">>),
             PyNone, PyNone, PyNone, PyNone)
S7 ==
    Strategy(PyNone, PyNone, PyNum(LowPrice), PyNum(Half), PyNum(HighPrice),
             PyNone, PyNone)

S8 ==
    Strategy(PyStr(BUY), PyNone, PyNum(LowPrice), PyNum(Half),
             PyNum(HighPrice), PyStr(<<"5", "%">>), PyNone)

(* (strategy, override_usd) of the execute_strategy calls; override_usd is *)
(* None (10% of the balance) or 4000 USD                                   *)
StrategyInputs ==
    {<<S1, None>>, <<S2, Int2R(4)>>, <<S3, Int2R(4)>>, <<S4, Int2R(4)>>,
     <<S5, Int2R(4)>>}

(* further execute_strategy calls: strategies that fail a validation, a    *)
(* strategy that raises, and a buy of 2000 USD, which with two buys of     *)
(* 4000 USD empties the wallet                                             *)
MoreStrategyInputs ==
    {<<S5, Int2R(2)>>, <<S6, Int2R(4)>>, <<S7, Int2R(4)>>, <<S8, Int2R(4)>>}

(* execute_strategy calls with the sizes a caller can hand in: none, 4000  *)
(* USD, 0 and -4000 USD (the trade-size field of the dashboard takes any   *)
(* number)                                                                 *)
SizedStrategyInputs ==
    {<<S1, None>>, <<S3, Int2R(4)>>, <<S3, Zero>>, <<S3, Int2R(-4)>>,
     <<S2, Int2R(-4)>>}

----------------------------------------------------------------------------
(* State                                                                   *)

VARIABLES
    data,     \* self.data: balance_usd, positions, history
    disk,     \* the wallet as last written by _save_wallet
    last,     \* the last call: its arguments, its result, the wallet before it
    runs,     \* per symbol, the buys (sells) made since the symbol was flat
    opened,   \* the open-then-close round trip in progress
    scaled,   \* the scaling target hit by the last check and by the one before
    file,     \* the contents of the JSON file, a sequence of tokens
    writer,   \* the position of the wallet inside _save_wallet
    reader    \* what the last _load_wallet of another instance observed

vars == <<data, disk, last, runs, opened, scaled, file, writer, reader>>

(* json.dump(data, f): the document, as the sequence of tokens written.    *)
(* initial_balance is written once and never changed; it is left out.      *)
Encode(d) ==
    <<[k |-> "{"], [k |-> "balance_usd", v |-> d.balance_usd],
      [k |-> "positions", v |-> d.positions],
      [k |-> "history", v |-> d.history], [k |-> "}"]>>

DocKeys == <<"{", "balance_usd", "positions", "history", "}">>

(* json.load(f): [ok, data]; ok = FALSE is the exception json.load raises  *)
(* on an empty or truncated document                                       *)
Decode(tokens) ==
    IF /\ Len(tokens) = Len(DocKeys)
       /\ \A i \in 1..Len(DocKeys) : tokens[i].k = DocKeys[i]
    THEN [ok |-> TRUE,
          data |-> [balance_usd |-> tokens[2].v, positions |-> tokens[3].v,
                    history |-> tokens[4].v]]
    ELSE [ok |-> FALSE, data |-> <<>>]

(* f.write at the offset of the writer's file object: token i of doc       *)
(* replaces what the file holds at i, or extends the file                  *)
WriteAt(tokens, doc, from, to) ==
    [i \in 1..(IF to > Len(tokens) THEN to ELSE Len(tokens)) |->
        IF i >= from /\ i <= to THEN doc[i] ELSE tokens[i]]

Idle == [pc |-> "idle", offset |-> 0]

NotLoaded ==
    [loaded |-> FALSE, whole |-> TRUE, data |-> <<>>, prev |-> <<>>,
     new |-> <<>>]

NoRun == [kind |-> "none", sumA |-> Zero, sumPA |-> Zero, first |-> Zero]

NoOpen == [stage |-> "none", symbol |-> <<>>, price |-> Zero, bal0 |-> Zero]

(* hit is the target removed by the last call, a check; prev is the target *)
(* removed by the call before it when that was a check of the same symbol  *)
(* at the same price; None stands for no target                            *)
NoScaled == [symbol |-> <<>>, price |-> Zero, hit |-> None, prev |-> None]

(* the target that a check of W0 at this price hits first, given that it   *)
(* scales out                                                              *)
HitTarget(symbol, current_price) ==
    data.positions[symbol].scaling_targets[
        FirstHit(data.positions[symbol].scaling_targets,
                 data.positions[symbol].amount, current_price, 1)]

Call(op, symbol, price, amount, strategy, override, res, msg) ==
    [op |-> op, symbol |-> symbol, price |-> price, amount |-> amount,
     strategy |-> strategy, override |-> override,
     ok |-> res.ok, msg |-> msg, raised |-> res.raised,
     pre |-> data, preDisk |-> disk]

(* the run of a symbol after a successful trade of the given kind: a run   *)
(* begins with a trade on a flat symbol and goes on with the trades of the *)
(* same kind; sumA and sumPA add up its amounts and its price * amount,    *)
(* first is its first amount                                               *)
RunAfterTrade(r, kind, isNew, price, amount) ==
    LET pa == RMul(price, amount)
        cont == r.kind = kind
    IN  IF ~cont /\ ~isNew THEN NoRun
        ELSE [kind |-> kind,
              sumA |-> IF cont THEN RAdd(r.sumA, amount) ELSE amount,
              sumPA |-> IF cont THEN RAdd(r.sumPA, pa) ELSE pa,
              first |-> IF cont THEN r.first ELSE amount]

(* the trade of a buy / sell / execute_strategy call, as seen by the runs  *)
(* and by the round trip                                                   *)
AfterTrade(kind, symbol, price, amount, ok) ==
    LET isNew == IsNewPos(data, symbol)
    IN  /\ runs' = IF ok
                   THEN [runs EXCEPT ![symbol] =
                            RunAfterTrade(@, kind, isNew, price, amount)]
                   ELSE runs
        /\ opened' = IF ok /\ isNew
                     THEN [stage |-> "open", symbol |-> symbol,
                           price |-> price, bal0 |-> data.balance_usd]
                     ELSE NoOpen

Init ==
    /\ data = DefaultData
    /\ disk = DefaultData
    /\ last = [op |-> "init", symbol |-> <<>>, price |-> Zero, amount |-> Zero,
               strategy |-> NoStrategy, override |-> None,
               ok |-> TRUE, msg |-> "None", raised |-> FALSE,
               pre |-> DefaultData, preDisk |-> DefaultData]
    /\ runs = [s \in Symbols |-> NoRun]
    /\ opened = NoOpen
    /\ scaled = NoScaled
    /\ file = Encode(DefaultData)
    /\ writer = Idle
    /\ reader = NotLoaded

(* a call is considered when it leaves at most MaxTrades trades recorded   *)
Bounded(res) == Len(res.W.data.history) <= MaxTrades

W0 == [data |-> data, disk |-> disk]

(* the file after a call that ran to its end with nothing else reading or  *)
(* writing it: the document of the last _save_wallet                       *)
Saved(d) ==
    /\ file' = Encode(d)
    /\ UNCHANGED <<writer, reader>>

Buy ==
    \E in \in BuyInputs :
        \E res \in {buy(W0, in[1], in[2], in[3])} :
            /\ Bounded(res)
            /\ data' = res.W.data
            /\ disk' = res.W.disk
            /\ last' = Call("buy", in[1], in[2], in[3], NoStrategy, None, res,
                            IF res.ok THEN "Bought" ELSE "InsufficientBalance")
            /\ AfterTrade("BUY", in[1], in[2], in[3], res.ok)
            /\ scaled' = NoScaled
            /\ Saved(res.W.disk)

Sell ==
    \E in \in SellInputs :
        \E res \in {sell(W0, in[1], in[2], in[3])} :
            /\ Bounded(res)
            /\ data' = res.W.data
            /\ disk' = res.W.disk
            /\ last' = Call("sell", in[1], in[2], in[3], NoStrategy, None, res,
                            "Sold")
            /\ AfterTrade("SELL", in[1], in[2], in[3], res.ok)
            /\ scaled' = NoScaled
            /\ Saved(res.W.disk)

ClosePosition ==
    \E in \in TickInputs :
        \E res \in {close_position(W0, in[1], in[2])} :
            /\ Bounded(res)
            /\ data' = res.W.data
            /\ disk' = res.W.disk
            /\ last' = Call("close_position", in[1], in[2], Zero, NoStrategy,
                            None, res, "None")
            /\ runs' = IF res.raised THEN runs
                       ELSE [runs EXCEPT ![in[1]] = NoRun]
            /\ opened' = IF /\ opened.stage = "open"
                            /\ opened.symbol = in[1]
                            /\ opened.price = in[2]
                         THEN [opened EXCEPT !.stage = "closed"]
                         ELSE NoOpen
            /\ scaled' = NoScaled
            /\ Saved(res.W.disk)

CheckAutomatedOrders ==
    \E in \in TickInputs :
        \E res \in {check_automated_orders(W0, in[1], in[2])} :
            /\ Bounded(res)
            /\ data' = res.W.data
            /\ disk' = res.W.disk
            /\ last' = Call("check_automated_orders", in[1], in[2], Zero,
                            NoStrategy, None,
                            [ok |-> ~res.raised, raised |-> res.raised], res.msg)
            /\ runs' = IF res.msg = "None" THEN runs
                       ELSE [runs EXCEPT ![in[1]] = NoRun]
            /\ opened' = NoOpen
            /\ scaled' =
                   [symbol |-> in[1], price |-> in[2],
                    hit |-> IF res.msg = "ScaledOut"
                            THEN HitTarget(in[1], in[2]) ELSE None,
                    prev |-> IF scaled.symbol = in[1] /\ scaled.price = in[2]
                             THEN scaled.hit ELSE None]
            /\ Saved(res.W.disk)

ExecuteStrategyOf(inputs) ==
    \E in \in inputs :
        \E res \in {execute_strategy(W0, in[1], in[2])} :
            /\ Bounded(res)
            /\ data' = res.W.data
            /\ disk' = res.W.disk
            /\ last' = Call("execute_strategy", res.symbol, res.price,
                            res.amount, in[1], in[2], res, res.msg)
            /\ AfterTrade(IF res.msg = "Bought" THEN "BUY" ELSE "SELL",
                          res.symbol, res.price, res.amount,
                          Len(res.W.data.history) > Len(data.history))
            /\ scaled' = NoScaled
            /\ Saved(res.W.disk)

ExecuteStrategy == ExecuteStrategyOf(StrategyInputs)

ExecuteAnyStrategy ==
    ExecuteStrategyOf(StrategyInputs \cup MoreStrategyInputs)

Next ==
    \/ Buy
    \/ Sell
    \/ ClosePosition
    \/ CheckAutomatedOrders
    \/ ExecuteStrategy

Spec == Init /\ [][Next]_vars

(* the wallet under buy, sell and the wider set of execute_strategy calls  *)
StrategyNext ==
    \/ Buy
    \/ Sell
    \/ ExecuteAnyStrategy

StrategySpec == Init /\ [][StrategyNext]_vars

(* a call that raises after the debit changes balance_usd and records no   *)
(* trade: the calls considered leave at most MaxBalance (thousand USD)     *)
MaxBalance == 30

ExecuteSizedStrategy ==
    /\ ExecuteStrategyOf(SizedStrategyInputs)
    /\ RLe(data'.balance_usd, Int2R(MaxBalance))

(* the wallet under buy, sell and execute_strategy calls of every size     *)
SizingNext ==
    \/ Buy
    \/ Sell
    \/ ExecuteSizedStrategy

SizingSpec == Init /\ [][SizingNext]_vars

----------------------------------------------------------------------------
(* _save_wallet step by step, with another PaperWallet instance loading    *)
(* the same file, or the writer being interrupted                          *)

(* buy and sell up to the call of _save_wallet in _record_trade: the       *)
(* wallet is changed in memory, the file is still to be written; a buy     *)
(* that fails returns without a save.  The calls considered save at most   *)
(* MaxSaves times.                                                         *)
MaxSaves == 2

BeginSave(res) ==
    /\ Len(res.W.data.history) <= MaxSaves
    /\ data' = res.W.data
    /\ writer' = IF res.ok THEN [pc |-> "open", offset |-> 0] ELSE Idle
    /\ UNCHANGED <<disk, file, reader>>
    /\ scaled' = NoScaled

BuyBegin ==
    /\ writer.pc = "idle"
    /\ \E in \in BuyInputs :
           \E res \in {buy(W0, in[1], in[2], in[3])} :
               /\ Bounded(res) /\ ~res.raised
               /\ BeginSave(res)
               /\ last' = Call("buy", in[1], in[2], in[3], NoStrategy, None,
                               res,
                               IF res.ok THEN "Bought" ELSE "InsufficientBalance")
               /\ AfterTrade("BUY", in[1], in[2], in[3], res.ok)

SellBegin ==
    /\ writer.pc = "idle"
    /\ \E in \in SellInputs :
           \E res \in {sell(W0, in[1], in[2], in[3])} :
               /\ Bounded(res) /\ ~res.raised
               /\ BeginSave(res)
               /\ last' = Call("sell", in[1], in[2], in[3], NoStrategy, None,
                               res, "Sold")
               /\ AfterTrade("SELL", in[1], in[2], in[3], res.ok)

(* open(self.filepath, 'w'): the file is truncated                         *)
OpenFile ==
    /\ writer.pc = "open"
    /\ file' = <<>>
    /\ writer' = [pc |-> "write", offset |-> 0]
    /\ UNCHANGED <<data, disk, last, runs, opened, scaled, reader>>

(* json.dump: the buffer of the file object is flushed once or several     *)
(* times, each time with some more of the document; the last flush is the  *)
(* close of the file, by which _save_wallet returns                        *)
Flush ==
    /\ writer.pc = "write"
    /\ \E to \in (writer.offset + 1)..Len(Encode(data)) :
           /\ file' = WriteAt(file, Encode(data), writer.offset + 1, to)
           /\ writer' = IF to = Len(Encode(data)) THEN Idle
                         ELSE [pc |-> "write", offset |-> to]
           /\ disk' = IF Decode(file').ok THEN Decode(file').data ELSE disk
    /\ UNCHANGED <<data, last, runs, opened, scaled, reader>>

(* the process of the writer is killed inside _save_wallet                 *)
Interrupt ==
    /\ writer.pc \in {"open", "write"}
    /\ writer' = [writer EXCEPT !.pc = "dead"]
    /\ UNCHANGED <<data, disk, last, runs, opened, scaled, file, reader>>

(* _load_wallet of another instance: the document if json.load returns     *)
(* it, else the default wallet, which is saved at once.  The keys that the *)
(* migration adds are those a position reads as None / [] anyway.  prev    *)
(* and new are the snapshot last written in full and the one being written *)
Load ==
    /\ \E doc \in {Decode(file)} :
           /\ reader' = [loaded |-> TRUE, whole |-> doc.ok,
                         data |-> IF doc.ok THEN doc.data ELSE DefaultData,
                         prev |-> disk, new |-> data]
           /\ file' = IF doc.ok THEN file ELSE Encode(DefaultData)
           /\ disk' = IF doc.ok THEN disk ELSE DefaultData
    /\ UNCHANGED <<data, last, runs, opened, scaled, writer>>

SaveNext ==
    \/ BuyBegin
    \/ SellBegin
    \/ OpenFile
    \/ Flush
    \/ Interrupt
    \/ Load

SaveSpec == Init /\ [][SaveNext]_vars

----------------------------------------------------------------------------
(* Properties.  They are stated on the last call (last), the wallet before *)
(* it (last.pre, last.preDisk) and the wallet after it (data, disk).       *)

(* the position of the last call's symbol before and after the call; a     *)
(* symbol never seen reads as a position of amount 0 without rules         *)
PosIn(d, symbol) ==
    IF symbol \in DOMAIN d.positions THEN d.positions[symbol] ELSE FreshPos(Zero)
PrePos == PosIn(last.pre, last.symbol)
CurPos == PosIn(data, last.symbol)

(* amount * price of the last call                                         *)
Cost == RMul(last.amount, last.price)

(* the last call recorded one trade of the given type                      *)
Recorded(t_type) ==
    /\ Len(data.history) = Len(last.pre.history) + 1
    /\ data.history[Len(data.history)].type = t_type

BuyExecuted ==
    \/ last.op = "buy" /\ last.ok
    \/ last.op = "execute_strategy" /\ Recorded("BUY")
SellExecuted ==
    \/ last.op = "sell" /\ last.ok
    \/ last.op = "execute_strategy" /\ Recorded("SELL")

(* C1: a buy that executes lowers balance_usd by exactly amount * price, a *)
(* sell that executes raises it by exactly amount * price, whichever       *)
(* branch is taken; a buy or sell that does not execute leaves balance_usd *)
(* as it was.                                                              *)
CashConservation ==
    /\ BuyExecuted => data.balance_usd = RSub(last.pre.balance_usd, Cost)
    /\ SellExecuted => data.balance_usd = RAdd(last.pre.balance_usd, Cost)
    /\ last.op \in {"buy", "sell"} /\ ~last.ok
           => data.balance_usd = last.pre.balance_usd

(* a buy that carries a short across zero into a long                      *)
CashConservationWitness ==
    /\ last.op = "buy" /\ last.ok
    /\ ~IsDust(PrePos.amount) /\ RLt(PrePos.amount, Zero)
    /\ RGt(CurPos.amount, Zero)
    /\ data.balance_usd = RSub(last.pre.balance_usd, Cost)

(* the position of symbol holds the sum of the amounts of its run, at the  *)
(* amount-weighted mean of the prices of its run                           *)
RunBlended(symbol, sign) ==
    /\ symbol \in DOMAIN data.positions
    /\ data.positions[symbol].amount =
           RMul(Int2R(sign), runs[symbol].sumA)
    /\ data.positions[symbol].avg_price =
           RDiv(runs[symbol].sumPA, runs[symbol].sumA)

(* C2 as stated: after every sequence of successful buys on an initially   *)
(* flat symbol, amount is the sum of the amounts and avg_price the         *)
(* amount-weighted mean of the prices.                                     *)
BuyRunBlendedAlways ==
    \A symbol \in Symbols :
        runs[symbol].kind = "BUY" => RunBlended(symbol, 1)

(* C2: after every sequence of successful buys on an initially flat symbol *)
(* whose first amount is at least 1e-8, amount is the sum of the amounts   *)
(* and avg_price the amount-weighted mean of the prices.                   *)
BuyRunBlended ==
    \A symbol \in Symbols :
        /\ runs[symbol].kind = "BUY"
        /\ RGe(runs[symbol].first, Int2R(DustThreshold))
        => RunBlended(symbol, 1)

(* two buys or more at different prices, the first of 1e-8 at least        *)
BuyRunBlendedWitness ==
    \E symbol \in Symbols :
        /\ runs[symbol].kind = "BUY"
        /\ RGe(runs[symbol].first, Int2R(DustThreshold))
        /\ runs[symbol].sumA # runs[symbol].first
        /\ RunBlended(symbol, 1)
        /\ data.positions[symbol].avg_price \notin Prices

(* amount * price > balance_usd, before the last call                      *)
TooDear == RGt(Cost, last.pre.balance_usd)

(* C3 as stated: buy fails if and only if the position is flat-or-long     *)
(* (amount >= 0) and amount * price exceeds balance_usd; a buy on a short  *)
(* position (amount < 0) never fails.                                      *)
BuyFailsIffLongAndDear ==
    last.op = "buy" =>
        /\ ~last.ok <=> (RGe(PrePos.amount, Zero) /\ TooDear)
        /\ RLt(PrePos.amount, Zero) => last.ok

(* C3: buy fails if and only if the position is absent, flat (magnitude    *)
(* below 1e-8, of either sign) or long and amount * price exceeds          *)
(* balance_usd; when it fails, balance_usd, the positions, the history and *)
(* the persisted snapshot are unchanged; a buy on a short position of      *)
(* magnitude 1e-8 or more never fails.                                     *)
BuyFailsIffNotShortAndDear ==
    last.op = "buy" =>
        /\ ~last.ok <=>
               ((IsDust(PrePos.amount) \/ RGt(PrePos.amount, Zero)) /\ TooDear)
        /\ ~last.ok => data = last.pre /\ disk = last.preDisk
        /\ (~IsDust(PrePos.amount) /\ RLt(PrePos.amount, Zero)) => last.ok

(* a buy that fails on a short below 1e-8, with exit rules on the position *)
(* or trades in the history that the failure leaves alone                  *)
BuyFailsIffNotShortAndDearWitness ==
    /\ last.op = "buy" /\ ~last.ok
    /\ RLt(PrePos.amount, Zero) /\ IsDust(PrePos.amount)
    /\ TooDear
    /\ data.history # <<>>
    /\ data = last.pre /\ disk = last.preDisk

(* C4: with every price and amount supplied positive, balance_usd is never *)
(* negative.                                                               *)
BalanceNeverNegative == RGe(data.balance_usd, Zero)

(* the watermark of a sell on a flat-or-short position: the opening price  *)
(* on a fresh open, min(lowest_price, price) on an increase                *)
LowestAfterOpen == CurPos.lowest_price = last.price
LowestAfterIncrease ==
    CurPos.lowest_price = RMin(PrePos.lowest_price, last.price)

(* C5 as stated: sell never fails; a sequence of sells on an initially     *)
(* flat symbol yields amount == -sum(ai) and the amount-weighted mean of   *)
(* the prices as avg_price; lowest_price is the opening price on a fresh   *)
(* open (no position, or amount 0) and min(lowest_price, price) on a sell  *)
(* that increases a short (amount < 0).                                    *)
SellRunBlendedAlways ==
    /\ last.op = "sell" => last.ok
    /\ \A symbol \in Symbols :
           runs[symbol].kind = "SELL" => RunBlended(symbol, -1)
    /\ last.op = "sell" /\ PrePos.amount = Zero => LowestAfterOpen
    /\ last.op = "sell" /\ RLt(PrePos.amount, Zero) => LowestAfterIncrease

(* C5: sell never fails; a sequence of sells on an initially flat symbol   *)
(* whose first amount is at least 1e-8 yields amount == -sum(ai) and the   *)
(* amount-weighted mean of the prices as avg_price; lowest_price is the    *)
(* opening price when the position was absent or flat (magnitude below     *)
(* 1e-8) and min(lowest_price, price) when the sell increases a short of   *)
(* magnitude 1e-8 or more.                                                 *)
SellRunBlended ==
    /\ last.op = "sell" => last.ok
    /\ \A symbol \in Symbols :
           /\ runs[symbol].kind = "SELL"
           /\ RGe(runs[symbol].first, Int2R(DustThreshold))
           => RunBlended(symbol, -1)
    /\ last.op = "sell" /\ IsDust(PrePos.amount) => LowestAfterOpen
    /\ last.op = "sell" /\ ~IsDust(PrePos.amount) /\ RLt(PrePos.amount, Zero)
           => LowestAfterIncrease

(* two sells or more, the first of 1e-8 at least, the last one below the   *)
(* lowest price so far                                                     *)
SellRunBlendedWitness ==
    /\ last.op = "sell" /\ last.ok
    /\ runs[last.symbol].kind = "SELL"
    /\ RGe(runs[last.symbol].first, Int2R(DustThreshold))
    /\ runs[last.symbol].sumA # runs[last.symbol].first
    /\ RunBlended(last.symbol, -1)
    /\ RLt(last.price, PrePos.lowest_price)
    /\ CurPos.lowest_price = last.price
    /\ CurPos.avg_price \notin Prices

(* C6: opening a position on a flat symbol at price p and then calling     *)
(* close_position at the same price p returns balance_usd to its value     *)
(* before the open and leaves the amount exactly 0.0.                      *)
RoundTripRestoresBalance ==
    opened.stage = "closed" =>
        /\ data.balance_usd = opened.bal0
        /\ PosIn(data, opened.symbol).amount = Zero

(* the last trade of the history                                           *)
LastTrade == data.history[Len(data.history)]

(* the last call closed the whole position it found at last.price: one     *)
(* opposing trade of the whole magnitude, its cash, and amount 0.0         *)
ClosedWhole ==
    /\ Recorded(IF RGt(PrePos.amount, Zero) THEN "SELL" ELSE "BUY")
    /\ LastTrade.pair = last.symbol
    /\ LastTrade.price = last.price
    /\ LastTrade.amount = Round8(RAbs(PrePos.amount))
    /\ data.balance_usd =
           IF RGt(PrePos.amount, Zero)
           THEN RAdd(last.pre.balance_usd, RMul(PrePos.amount, last.price))
           ELSE RSub(last.pre.balance_usd,
                     RMul(RAbs(PrePos.amount), last.price))
    /\ CurPos.amount = Zero

RulesCleared ==
    /\ CurPos.stop_loss = None
    /\ CurPos.take_profit = None
    /\ CurPos.trailing_stop_percent = None
    /\ CurPos.scaling_targets = <<>>

(* C7: close_position on a non-flat position executes exactly one opposing *)
(* trade for the entire magnitude at current_price and leaves stop_loss,   *)
(* take_profit, trailing_stop_percent None, scaling_targets empty and      *)
(* amount exactly 0.0.                                                     *)
ClosePositionClears ==
    last.op = "close_position" /\ ~IsDust(PrePos.amount) =>
        /\ last.ok /\ ~last.raised
        /\ ClosedWhole
        /\ RulesCleared
        /\ disk = data

(* the close of a short that carried all four exit rules                   *)
ClosePositionClearsWitness ==
    /\ last.op = "close_position"
    /\ ~IsDust(PrePos.amount) /\ RLt(PrePos.amount, Zero)
    /\ PrePos.stop_loss # None /\ PrePos.take_profit # None
    /\ PrePos.trailing_stop_percent # None /\ PrePos.scaling_targets # <<>>
    /\ ClosedWhole /\ RulesCleared

(* check_automated_orders was called on a position that is not flat        *)
Checked ==
    /\ last.op = "check_automated_orders"
    /\ ~IsDust(PrePos.amount)

(* the stop-loss and take-profit conditions, on the position before the    *)
(* call                                                                    *)
StopLossReached ==
    \/ RGt(PrePos.amount, Zero) /\ RLe(last.price, PrePos.stop_loss)
    \/ RLt(PrePos.amount, Zero) /\ RGe(last.price, PrePos.stop_loss)
TakeProfitReached ==
    \/ RGt(PrePos.amount, Zero) /\ RGe(last.price, PrePos.take_profit)
    \/ RLt(PrePos.amount, Zero) /\ RLe(last.price, PrePos.take_profit)

(* C8: on a non-flat position with a stop_loss set, check_automated_orders *)
(* returns the stop-loss message exactly when the position is long and     *)
(* current_price <= stop_loss or short and current_price >= stop_loss;     *)
(* the whole position is then closed at current_price: amount 0.0,         *)
(* balance_usd changed by the closed magnitude times current_price.        *)
StopLossFires ==
    Checked /\ PrePos.stop_loss # None =>
        /\ last.msg = "StopLoss" <=> StopLossReached
        /\ last.msg = "StopLoss" => ClosedWhole

(* the stop-loss of a short, fired above the stop                          *)
StopLossFiresWitness ==
    /\ Checked /\ PrePos.stop_loss # None
    /\ RLt(PrePos.amount, Zero)
    /\ RGt(last.price, PrePos.stop_loss)
    /\ last.msg = "StopLoss" /\ ClosedWhole

(* the trailing-stop condition, on the watermark as the call updates it    *)
TrailingReached ==
    /\ PrePos.trailing_stop_percent # None
    /\ \/ /\ RGt(PrePos.amount, Zero)
          /\ RLe(last.price,
                 RMul(RMax(PrePos.highest_price, last.price),
                      RSub(One, RDiv(PrePos.trailing_stop_percent, Hundred))))
       \/ /\ RLt(PrePos.amount, Zero)
          /\ RGe(last.price,
                 RMul(RMin(PrePos.lowest_price, last.price),
                      RAdd(One, RDiv(PrePos.trailing_stop_percent, Hundred))))

StopLossDue == PrePos.stop_loss # None /\ StopLossReached
TakeProfitDue == PrePos.take_profit # None /\ TakeProfitReached

(* C9: when current_price satisfies both the stop-loss and the take-profit *)
(* condition, check_automated_orders returns the stop-loss message and     *)
(* records exactly one closing trade; a rule only fires when no rule       *)
(* earlier in the order stop-loss, take-profit, trailing stop, scaling     *)
(* targets does, and a call records one trade at most.                     *)
StopLossFirst ==
    Checked =>
        /\ StopLossDue /\ TakeProfitDue
               => last.msg = "StopLoss" /\ ClosedWhole
        /\ last.msg = "TakeProfit" => ~StopLossDue
        /\ last.msg = "TrailingStop" => ~StopLossDue /\ ~TakeProfitDue
        /\ last.msg = "ScaledOut"
               => ~StopLossDue /\ ~TakeProfitDue /\ ~TrailingReached
        /\ Len(data.history) <= Len(last.pre.history) + 1

(* a long whose stop-loss and take-profit are both reached by the price    *)
StopLossFirstWitness ==
    /\ Checked
    /\ RGt(PrePos.amount, Zero)
    /\ StopLossDue /\ TakeProfitDue
    /\ last.msg = "StopLoss"
    /\ Len(data.history) = Len(last.pre.history) + 1

(* C10: on a non-flat position with take_profit set and the stop-loss rule *)
(* not firing, check_automated_orders returns the take-profit message      *)
(* exactly when the position is long and current_price >= take_profit or   *)
(* short and current_price <= take_profit; the whole position is then      *)
(* closed at current_price.                                                *)
TakeProfitFires ==
    Checked /\ PrePos.take_profit # None /\ ~StopLossDue =>
        /\ last.msg = "TakeProfit" <=> TakeProfitReached
        /\ last.msg = "TakeProfit" => ClosedWhole /\ RulesCleared

(* the take-profit of a long fired at the target itself, its stop-loss set *)
(* and not reached                                                         *)
TakeProfitFiresWitness ==
    /\ Checked /\ PrePos.take_profit # None
    /\ PrePos.stop_loss # None /\ ~StopLossReached
    /\ RGt(PrePos.amount, Zero)
    /\ last.price = PrePos.take_profit
    /\ last.msg = "TakeProfit" /\ ClosedWhole

(* the watermark of the position after a check: the long's highest_price, *)
(* the short's lowest_price, moved to the price when the price is beyond   *)
WatermarkUpdated ==
    IF RGt(PrePos.amount, Zero)
    THEN /\ CurPos.highest_price = RMax(PrePos.highest_price, last.price)
         /\ CurPos.lowest_price = PrePos.lowest_price
    ELSE /\ CurPos.lowest_price = RMin(PrePos.lowest_price, last.price)
         /\ CurPos.highest_price = PrePos.highest_price

(* C11: every check_automated_orders call on a non-flat position updates   *)
(* the watermark (long: highest_price = max(highest_price, current_price); *)
(* short: lowest_price = min(lowest_price, current_price)); with           *)
(* trailing_stop_percent set and neither stop-loss nor take-profit firing, *)
(* the trailing-stop message is returned exactly when a long has           *)
(* current_price <= highest_price * (1 - pct/100) or a short has           *)
(* current_price >= lowest_price * (1 + pct/100), on the updated           *)
(* watermark, and the whole position is then closed at current_price.      *)
TrailingStopFires ==
    Checked =>
        /\ WatermarkUpdated
        /\ (PrePos.trailing_stop_percent # None
              /\ ~StopLossDue /\ ~TakeProfitDue) =>
               /\ last.msg = "TrailingStop" <=> TrailingReached
               /\ last.msg = "TrailingStop" => ClosedWhole /\ RulesCleared

(* a long closed by its trailing stop below a high that an earlier check   *)
(* recorded, at a price the opening watermark would not have closed it at  *)
TrailingStopFiresWitness ==
    /\ Checked
    /\ RGt(PrePos.amount, Zero)
    /\ PrePos.trailing_stop_percent # None
    /\ RGt(PrePos.highest_price, PrePos.avg_price)
    /\ RGt(last.price,
           RMul(PrePos.avg_price,
                RSub(One, RDiv(PrePos.trailing_stop_percent, Hundred))))
    /\ last.msg = "TrailingStop" /\ ClosedWhole

(* the scaling target at index i is reached by the price of the check     *)
TargetReached(i) ==
    \/ RGt(PrePos.amount, Zero) /\ RGe(last.price, PrePos.scaling_targets[i])
    \/ RLt(PrePos.amount, Zero) /\ RLe(last.price, PrePos.scaling_targets[i])

(* some target is reached, and no target before the one at index i is      *)
SomeTargetReached ==
    \E i \in 1..Len(PrePos.scaling_targets) : TargetReached(i)
FirstReached(i) ==
    /\ i \in 1..Len(PrePos.scaling_targets)
    /\ TargetReached(i)
    /\ \A k \in 1..(i - 1) : ~TargetReached(k)

(* the last call traded half of the magnitude it found, against the        *)
(* position, at last.price                                                 *)
HalfClosed ==
    /\ Recorded(IF RGt(PrePos.amount, Zero) THEN "SELL" ELSE "BUY")
    /\ LastTrade.pair = last.symbol
    /\ LastTrade.price = last.price
    /\ LastTrade.amount = Round8(RMul(RAbs(PrePos.amount), Half))
    /\ CurPos.amount = RMul(PrePos.amount, Half)
    /\ data.balance_usd =
           RAdd(last.pre.balance_usd,
                RMul(RMul(PrePos.amount, Half), last.price))

(* C12: when no full-close rule fires and a scaling target is reached,     *)
(* check_automated_orders returns the scaled-out message, closes exactly   *)
(* 50% of the remaining magnitude with one opposite trade at               *)
(* current_price, removes the first reached target of the list and only    *)
(* it, and leaves the other targets and the other exit rules in place.     *)
ScalingOutFires ==
    (Checked /\ ~StopLossDue /\ ~TakeProfitDue /\ ~TrailingReached
        /\ SomeTargetReached) =>
        /\ last.msg = "ScaledOut"
        /\ HalfClosed
        /\ \A i \in 1..Len(PrePos.scaling_targets) :
               FirstReached(i) =>
                   CurPos.scaling_targets =
                       SubSeq(PrePos.scaling_targets, 1, i - 1)
                           \o SubSeq(PrePos.scaling_targets, i + 1,
                                     Len(PrePos.scaling_targets))
        /\ CurPos.stop_loss = PrePos.stop_loss
        /\ CurPos.take_profit = PrePos.take_profit
        /\ CurPos.trailing_stop_percent = PrePos.trailing_stop_percent

(* a scale-out of a position that has grown since it was opened, on the    *)
(* second target of three, the first one not being reached                 *)
ScalingOutFiresWitness ==
    /\ Checked /\ last.msg = "ScaledOut"
    /\ Len(PrePos.scaling_targets) = 3
    /\ FirstReached(2)
    /\ Len(CurPos.scaling_targets) = 2
    /\ PrePos.stop_loss # None /\ PrePos.trailing_stop_percent # None
    /\ RGt(PrePos.amount, Int2R(4))
    /\ HalfClosed

(* C13: once a scaling target has been hit and removed by                  *)
(* check_automated_orders, calling check_automated_orders again at the     *)
(* same price does not fire that target again.                             *)
ScalingIdempotent ==
    scaled.prev # None => scaled.hit # scaled.prev

(* |amount| < 1e-8                                                         *)
Flat(amount) ==
    /\ RLt(amount, Int2R(DustThreshold))
    /\ RLt(Int2R(-DustThreshold), amount)

(* C14: check_automated_orders on a symbol without a position or with a   *)
(* flat position (|amount| < 1e-8) returns None and changes nothing:       *)
(* balance_usd, positions, history, and the persisted snapshot.            *)
CheckOnFlatIsNoOp ==
    last.op = "check_automated_orders" /\ Flat(PrePos.amount) =>
        /\ last.msg = "None" /\ ~last.raised
        /\ data = last.pre
        /\ disk = last.preDisk

(* a check that leaves alone a long below 1e-8 whose stop-loss is reached  *)
CheckOnFlatIsNoOpWitness ==
    /\ last.op = "check_automated_orders"
    /\ Flat(PrePos.amount) /\ RGt(PrePos.amount, Zero)
    /\ StopLossDue
    /\ RGt(last.price, PrePos.highest_price)
    /\ last.msg = "None"
    /\ data = last.pre

(* the action of the last strategy, upper-cased, holds BUY / SELL          *)
IsBuyAction == Contains(BUY, ActionRaw(last.strategy))
IsSellAction == Contains(SELL, ActionRaw(last.strategy))

(* the size of the last strategy's trade in USD: override_usd if given,    *)
(* else 10% of the balance                                                 *)
SizeUsd ==
    IF last.override # None THEN last.override
    ELSE RMul(last.pre.balance_usd, Rat(1, 10))

(* the validations of execute_strategy; last.price is the sanitized entry  *)
(* price                                                                   *)
BadPrice == RLe(last.price, Zero)
NoCash == RLe(last.pre.balance_usd, Zero)
Oversized == IsBuyAction /\ RGt(SizeUsd, last.pre.balance_usd)
Unrecognized == ~IsBuyAction /\ ~IsSellAction

Untouched == data = last.pre /\ disk = last.preDisk

(* C15: whenever execute_strategy fails a validation (action with neither  *)
(* BUY nor SELL, sanitized entry price <= 0, balance_usd <= 0, or a BUY    *)
(* whose usd_amount exceeds balance_usd), it returns failure and no wallet *)
(* state is mutated; nor is any when the buy it delegates to fails.        *)
ValidationFailureMutatesNothing ==
    last.op = "execute_strategy" =>
        /\ (BadPrice \/ NoCash \/ Oversized \/ Unrecognized) =>
               /\ ~last.ok /\ ~last.raised
               /\ last.msg \in {"InvalidEntryPrice", "InsufficientAccountBalance",
                                "NotEnoughBalance", "NotRecognized"}
               /\ Untouched
        /\ ~last.ok /\ ~last.raised => Untouched

(* an oversized BUY refused on a wallet that holds a position with its     *)
(* exit rules and a history                                                *)
ValidationFailureMutatesNothingWitness ==
    /\ last.op = "execute_strategy"
    /\ Oversized /\ ~BadPrice /\ ~NoCash
    /\ last.msg = "NotEnoughBalance"
    /\ ~Flat(PrePos.amount) /\ PrePos.stop_loss # None
    /\ data.history # <<>>
    /\ Untouched

(* word, in capitals, occurs in str in whatever case                       *)
SameLetter(c, capital) ==
    \/ c = capital
    \/ \E i \in 1..Len(Lower) : Lower[i] = c /\ Upper[i] = capital
HasWord(word, str) ==
    \E i \in 1..(Len(str) - Len(word) + 1) :
        \A k \in 1..Len(word) : SameLetter(str[i + k - 1], word[k])

(* the action of the last strategy as given, 'WAIT' when it has none       *)
ActionGiven ==
    IF last.strategy.action.t = "str" THEN last.strategy.action.s ELSE WAIT
SaysBuy == HasWord(BUY, ActionGiven)
SaysSell == HasWord(SELL, ActionGiven)

(* C16 as stated: execute_strategy buys when the action holds BUY and      *)
(* sells when it holds SELL, in whatever case, and every strategy whose    *)
(* action holds neither fails with the 'action not recognized' message.    *)
UnrecognizedActionAlwaysNamed ==
    last.op = "execute_strategy" =>
        /\ last.msg = "Bought" => SaysBuy
        /\ last.msg = "Sold" => SaysSell
        /\ (~SaysBuy /\ ~SaysSell) => ~last.ok /\ last.msg = "NotRecognized"

(* C16: a call of execute_strategy that returns buys when the action holds BUY and otherwise      *)
(* sells when it holds SELL, in whatever case; a strategy whose action     *)
(* holds neither always fails: with the 'action not recognized' message    *)
(* when its sanitized entry price and balance_usd are positive, with the   *)
(* invalid-entry-price or insufficient-account-balance message of the      *)
(* earlier validations otherwise.                                          *)
UnrecognizedActionFails ==
    last.op = "execute_strategy" /\ ~last.raised =>
        /\ last.msg = "Bought" => SaysBuy
        /\ last.msg = "Sold" => SaysSell /\ ~SaysBuy
        /\ (SaysBuy /\ ~BadPrice /\ ~NoCash
              /\ RLe(SizeUsd, last.pre.balance_usd)) => last.msg = "Bought"
        /\ (SaysSell /\ ~SaysBuy /\ ~BadPrice /\ ~NoCash) => last.msg = "Sold"
        /\ (~SaysBuy /\ ~SaysSell) =>
               /\ ~last.ok
               /\ Untouched
               /\ last.msg = IF BadPrice THEN "InvalidEntryPrice"
                             ELSE IF NoCash THEN "InsufficientAccountBalance"
                             ELSE "NotRecognized"

(* a strategy without BUY or SELL refused as not recognized, after a       *)
(* strategy that bought on an action in mixed case                         *)
UnrecognizedActionFailsWitness ==
    /\ last.op = "execute_strategy"
    /\ ~SaysBuy /\ ~SaysSell
    /\ ~BadPrice /\ ~NoCash
    /\ last.msg = "NotRecognized"
    /\ Untouched
    /\ PrePos.trailing_stop_percent # None /\ PrePos.stop_loss = None

(* the last strategy traded SizeUsd / price at its sanitized entry price   *)
SizedTrade(t_type) ==
    /\ Recorded(t_type)
    /\ LastTrade.pair = last.symbol
    /\ LastTrade.price = last.price
    /\ LastTrade.amount = Round8(RDiv(SizeUsd, last.price))
    /\ LastTrade.total_usd = Round2(SizeUsd)

(* C17: a call of execute_strategy that returns trades usd_amount / sanitized entry price, where  *)
(* usd_amount is override_usd when given and 10% of the current            *)
(* balance_usd otherwise; a BUY with usd_amount > balance_usd is rejected, *)
(* a SELL is not, and a successful BUY lowers balance_usd by exactly       *)
(* usd_amount (a SELL raises it by as much); on a flat symbol the position *)
(* is then usd_amount / price.                                             *)
StrategySized ==
    (last.op = "execute_strategy" /\ ~last.raised /\ ~BadPrice /\ ~NoCash) =>
        /\ (SaysBuy /\ RGt(SizeUsd, last.pre.balance_usd)) =>
               last.msg = "NotEnoughBalance" /\ Untouched
        /\ (SaysBuy /\ RLe(SizeUsd, last.pre.balance_usd)) =>
               /\ last.msg = "Bought"
               /\ SizedTrade("BUY")
               /\ data.balance_usd = RSub(last.pre.balance_usd, SizeUsd)
               /\ Flat(PrePos.amount) =>
                      CurPos.amount = RDiv(SizeUsd, last.price)
        /\ (SaysSell /\ ~SaysBuy) =>
               /\ last.msg = "Sold"
               /\ SizedTrade("SELL")
               /\ data.balance_usd = RAdd(last.pre.balance_usd, SizeUsd)
               /\ Flat(PrePos.amount) =>
                      CurPos.amount = RNeg(RDiv(SizeUsd, last.price))

(* a BUY of 10% of a balance that earlier trades have changed, on a flat   *)
(* symbol                                                                  *)
StrategySizedWitness ==
    /\ last.op = "execute_strategy" /\ last.msg = "Bought"
    /\ last.override = None
    /\ last.pre.balance_usd # DefaultData.balance_usd
    /\ Flat(PrePos.amount)
    /\ SizedTrade("BUY")
    /\ data.balance_usd = RMul(last.pre.balance_usd, Rat(9, 10))

(* the exit rules of the strategies, read off their values: 5 and " $1.00 " *)
(* for S1, "$1,000" and "50" among those of S4, None for what is absent,   *)
(* does not parse or is 0                                                  *)
Rules(sl, tp, tsl, targets) ==
    [stop_loss |-> sl, take_profit |-> tp, trailing_stop_percent |-> tsl,
     scaling_targets |-> targets]
RulesOfStrategy ==
    CASE last.strategy = S1 -> Rules(Int2R(5), Int2R(1), None, <<>>)
      [] last.strategy = S2 -> Rules(Int2R(1), Int2R(5), None, <<>>)
      [] last.strategy = S3 ->
            Rules(Rat(1, 2), Int2R(5), Int2R(50),
                  <<Int2R(5), Int2R(1), Int2R(1)>>)
      [] last.strategy = S4 ->
            Rules(Int2R(1000), Int2R(1), Int2R(50), <<Int2R(5)>>)
      [] last.strategy = S5 -> Rules(None, None, Int2R(50), <<>>)
      [] OTHER -> Rules(None, None, None, <<>>)

RulesOf(pos) ==
    Rules(pos.stop_loss, pos.take_profit, pos.trailing_stop_percent,
          pos.scaling_targets)

(* C18: after every successful execute_strategy the exit rules of the      *)
(* position are those of the strategy just executed and nothing else:      *)
(* stop_loss and take_profit the sanitized values, None when that is 0;    *)
(* trailing_stop_percent the value given, None when 0 or absent;           *)
(* scaling_targets the targets whose sanitized value is > 0.               *)
RulesOverwritten ==
    last.op = "execute_strategy" /\ last.ok =>
        /\ RulesOf(CurPos) = RulesOfStrategy
        /\ disk = data

(* a strategy without stop-loss, take-profit and targets, executed on a    *)
(* position that had all of them                                           *)
RulesOverwrittenWitness ==
    /\ last.op = "execute_strategy" /\ last.ok
    /\ ~Flat(PrePos.amount)
    /\ PrePos.stop_loss # None /\ PrePos.take_profit # None
    /\ PrePos.scaling_targets # <<>>
    /\ RulesOf(CurPos) = Rules(None, None, Int2R(50), <<>>)

(* C19: whenever buy, sell, close_position, check_automated_orders or      *)
(* execute_strategy returns, the persisted snapshot equals the in-memory   *)
(* wallet.                                                                 *)
SnapshotCurrent ==
    ~last.raised => disk = data

(* the history before the last call is the beginning of the history after *)
HistoryKept ==
    /\ Len(data.history) >= Len(last.pre.history)
    /\ SubSeq(data.history, 1, Len(last.pre.history)) = last.pre.history

(* the record of the last call's trade: its symbol, type and price, its    *)
(* amount to 8 decimals and its usd value to 2 decimals                    *)
TradeRecord(t_type) ==
    [pair |-> last.symbol, type |-> t_type, price |-> last.price,
     amount |-> Round8(last.amount), total_usd |-> Round2(Cost)]

(* C20: every successful buy or sell appends exactly one record, of the    *)
(* trade's symbol, type, price, amount (to 8 decimals) and usd value (to 2 *)
(* decimals), at the end of the history; a failed buy appends none; no     *)
(* operation modifies, reorders or removes a record already there, or      *)
(* appends more than one.                                                  *)
HistoryAppendOnly ==
    /\ HistoryKept
    /\ Len(data.history) <= Len(last.pre.history) + 1
    /\ BuyExecuted => Recorded("BUY") /\ LastTrade = TradeRecord("BUY")
    /\ SellExecuted => Recorded("SELL") /\ LastTrade = TradeRecord("SELL")
    /\ last.op \in {"buy", "sell"} /\ ~last.ok
           => data.history = last.pre.history

(* a sell recorded after two other trades                                  *)
HistoryAppendOnlyWitness ==
    /\ last.op = "sell" /\ last.ok
    /\ Len(last.pre.history) = 2
    /\ last.pre.history[1] # last.pre.history[2]
    /\ LastTrade = TradeRecord("SELL")
    /\ LastTrade # last.pre.history[1]
    /\ HistoryKept

(* C21: a load that happens at any point relative to a save observes the  *)
(* complete previous snapshot or the complete new one, never an empty or   *)
(* truncated document, and so never falls back to the default wallet.      *)
LoadSeesWholeSnapshot ==
    reader.loaded =>
        /\ reader.whole
        /\ reader.data \in {reader.prev, reader.new}

(* a long and a short of 1e-8 or more                                      *)
IsLong(amount) == RGe(amount, Int2R(DustThreshold))
IsShort(amount) == RLe(amount, Int2R(-DustThreshold))

(* the last call was a buy or a sell, direct or of a strategy, that        *)
(* executed                                                                *)
Traded == BuyExecuted \/ SellExecuted

(* the trade of the last call carried the position across zero: the side   *)
(* now open was opened by it, at last.price                                *)
Crossed ==
    \/ IsShort(PrePos.amount) /\ BuyExecuted /\ IsLong(CurPos.amount)
    \/ IsLong(PrePos.amount) /\ SellExecuted /\ IsShort(CurPos.amount)

(* the trade of the last call added to the side that was open              *)
Increased ==
    \/ IsLong(PrePos.amount) /\ BuyExecuted
    \/ IsShort(PrePos.amount) /\ SellExecuted

(* the size-weighted mean entry price of the open side after the trade of  *)
(* the last call: the trade's price when it opened the side, from flat or  *)
(* across zero; the mean of the side's trades so far and this one when it  *)
(* added to the side; the mean so far when it reduced the side             *)
MeanEntryPrice ==
    IF Flat(PrePos.amount) \/ Crossed THEN last.price
    ELSE IF Increased
    THEN RDiv(RAdd(RMul(RAbs(PrePos.amount), PrePos.avg_price), Cost),
              RAdd(RAbs(PrePos.amount), last.amount))
    ELSE PrePos.avg_price

(* C22: whenever a position is non-flat, avg_price is the size-weighted    *)
(* mean of the entry prices of the trades that built the open side, also   *)
(* when a buy or sell carried the position across zero.  Stated on every   *)
(* trade that leaves the position non-flat; no other step changes          *)
(* avg_price.                                                              *)
AvgPriceOfOpenSide ==
    /\ (Traded /\ ~Flat(CurPos.amount)) => CurPos.avg_price = MeanEntryPrice
    /\ (~Traded /\ ~Flat(CurPos.amount)) => CurPos.avg_price = PrePos.avg_price

(* the watermark of the open side: highest_price of a long, lowest_price   *)
(* of a short                                                              *)
OpenWatermark(pos) ==
    IF RGt(pos.amount, Zero) THEN pos.highest_price ELSE pos.lowest_price

(* the better of two prices for the side of pos: the higher for a long,    *)
(* the lower for a short                                                   *)
BestOf(pos, x, y) == IF RGt(pos.amount, Zero) THEN RMax(x, y) ELSE RMin(x, y)

(* C23: whenever a position is non-flat, the watermark of its open side is *)
(* the best price among the trade that opened the side, the later          *)
(* same-side increases and the prices the checks have seen since; both     *)
(* watermarks are the opening price when the position goes from flat to    *)
(* non-flat.  Stated on every call that leaves the position non-flat: a    *)
(* trade that opens the side, from flat or across zero, sets the watermark *)
(* to its price; an increase and a check take the best of the watermark    *)
(* and their price; a reduction leaves it.                                 *)
WatermarkOfOpenSide ==
    ~Flat(CurPos.amount) =>
        /\ (Traded /\ Flat(PrePos.amount)) =>
               /\ CurPos.highest_price = last.price
               /\ CurPos.lowest_price = last.price
        /\ (Traded /\ Crossed) => OpenWatermark(CurPos) = last.price
        /\ (Traded /\ Increased) =>
               OpenWatermark(CurPos) =
                   BestOf(CurPos, OpenWatermark(PrePos), last.price)
        /\ (Traded /\ ~Flat(PrePos.amount) /\ ~Crossed /\ ~Increased) =>
               OpenWatermark(CurPos) = OpenWatermark(PrePos)
        /\ (Checked /\ ~Traded) =>
               OpenWatermark(CurPos) =
                   BestOf(CurPos, OpenWatermark(PrePos), last.price)

(* the position before the last call with its amount changed by the        *)
(* traded quantity and nothing else                                        *)
OnlyAmountChanged ==
    CurPos = [PrePos EXCEPT
                 !.amount = IF last.op = "buy"
                            THEN RAdd(PrePos.amount, last.amount)
                            ELSE RSub(PrePos.amount, last.amount)]

(* C24 as stated: a buy on a short position (amount < 0) or a sell on a    *)
(* long position (amount > 0) changes amount by exactly the traded         *)
(* quantity and leaves avg_price, highest_price, lowest_price and every    *)
(* exit rule unchanged, also when the sign of amount flips.                *)
ReducingTradeKeepsAll ==
    \/ last.op = "buy" /\ RLt(PrePos.amount, Zero)
    \/ last.op = "sell" /\ RGt(PrePos.amount, Zero)
    => last.ok /\ OnlyAmountChanged

(* C24: a buy on a short position of magnitude 1e-8 or more, or a sell on  *)
(* a long position of magnitude 1e-8 or more, changes amount by exactly    *)
(* the traded quantity and leaves avg_price, highest_price, lowest_price   *)
(* and every exit rule unchanged, also when the sign of amount flips; on a *)
(* position below 1e-8 the trade opens a fresh position instead, at its    *)
(* own price and without exit rules.                                       *)
ReducingTradeKeepsRest ==
    /\ \/ last.op = "buy" /\ IsShort(PrePos.amount)
       \/ last.op = "sell" /\ IsLong(PrePos.amount)
       => last.ok /\ OnlyAmountChanged
    /\ (last.op \in {"buy", "sell"} /\ last.ok /\ Flat(PrePos.amount)) =>
           /\ CurPos.amount =
                  IF last.op = "buy" THEN last.amount ELSE RNeg(last.amount)
           /\ CurPos.avg_price = last.price
           /\ CurPos.highest_price = last.price
           /\ CurPos.lowest_price = last.price
           /\ RulesOf(CurPos) = Rules(None, None, None, <<>>)

(* a buy at another price that carries a short with exit rules across zero *)
ReducingTradeKeepsRestWitness ==
    /\ last.op = "buy" /\ last.ok
    /\ IsShort(PrePos.amount) /\ IsLong(CurPos.amount)
    /\ last.price # PrePos.avg_price
    /\ PrePos.stop_loss # None /\ PrePos.scaling_targets # <<>>
    /\ OnlyAmountChanged

(* the full-close messages                                                 *)
FullCloseMsgs == {"StopLoss", "TakeProfit", "TrailingStop"}

(* C25: a single check_automated_orders call fires at most one exit rule:  *)
(* it appends at most one trade; when a full-close rule fires, that trade  *)
(* is the close of the whole position and no scaling target is executed    *)
(* after it, so that a price reaching both the trailing-stop level and a   *)
(* scaling target produces only the full close; a scale-out is one trade   *)
(* of half the position and uses up one target; a call in which no rule    *)
(* fires appends nothing.                                                  *)
OneRulePerCheck ==
    Checked =>
        /\ Len(data.history) <= Len(last.pre.history) + 1
        /\ last.msg \in FullCloseMsgs => ClosedWhole /\ RulesCleared
        /\ (~StopLossDue /\ ~TakeProfitDue /\ TrailingReached
              /\ SomeTargetReached) =>
               last.msg = "TrailingStop" /\ ClosedWhole
        /\ last.msg = "ScaledOut" =>
               /\ HalfClosed
               /\ Len(CurPos.scaling_targets) = Len(PrePos.scaling_targets) - 1
        /\ last.msg = "None" => data.history = last.pre.history

(* a price that reaches the trailing-stop level of a long and one of its   *)
(* scaling targets: the long is closed whole, by one trade                 *)
OneRulePerCheckWitness ==
    /\ Checked
    /\ ~StopLossDue /\ ~TakeProfitDue
    /\ TrailingReached /\ SomeTargetReached
    /\ last.msg = "TrailingStop"
    /\ ClosedWhole
    /\ Len(data.history) = Len(last.pre.history) + 1

(* no rule is due at the price of the check                               *)
NoRuleDue ==
    /\ ~StopLossDue /\ ~TakeProfitDue
    /\ ~TrailingReached /\ ~SomeTargetReached

(* the position before the check with the watermark of its open side moved *)
(* to the price when the price is beyond it                                *)
WatermarkMoved ==
    IF RGt(PrePos.amount, Zero)
    THEN [PrePos EXCEPT !.highest_price = RMax(@, last.price)]
    ELSE [PrePos EXCEPT !.lowest_price = RMin(@, last.price)]

(* C26: check_automated_orders on a non-flat position returns None exactly *)
(* when no rule fires, and then changes nothing except the watermark of    *)
(* the open side: balance_usd, amount, avg_price, the exit rules, the      *)
(* other side's watermark, the other positions and the history are as      *)
(* before, and the wallet is persisted.                                    *)
QuietCheckMovesWatermarkOnly ==
    Checked =>
        /\ NoRuleDue <=> last.msg = "None"
        /\ last.msg = "None" =>
               /\ ~last.raised
               /\ data = [last.pre EXCEPT
                             !.positions[last.symbol] = WatermarkMoved]
               /\ disk = data

(* a check of a long with a trailing stop at a price above its high, and   *)
(* below every rule                                                        *)
QuietCheckMovesWatermarkOnlyWitness ==
    /\ Checked /\ last.msg = "None"
    /\ RGt(PrePos.amount, Zero)
    /\ PrePos.trailing_stop_percent # None
    /\ RGt(last.price, PrePos.highest_price)
    /\ CurPos.highest_price = last.price
    /\ CurPos.lowest_price = PrePos.lowest_price
    /\ data.balance_usd = last.pre.balance_usd

(* C27: for every override_usd, execute_strategy either returns failure    *)
(* without mutating the wallet or executes a trade of strictly positive    *)
(* size at a positive price in the direction of the action; it never       *)
(* raises, never credits cash on a BUY and never opens a position of the   *)
(* opposite sign.                                                          *)
StrategyTradesPositiveSize ==
    last.op = "execute_strategy" =>
        /\ ~last.raised
        /\ ~last.ok => Untouched
        /\ last.ok =>
               /\ RGt(last.amount, Zero) /\ RGt(last.price, Zero)
               /\ Recorded(IF SaysBuy THEN "BUY" ELSE "SELL")
               /\ SaysBuy => RLt(data.balance_usd, last.pre.balance_usd)
               /\ (SaysBuy /\ Flat(PrePos.amount)) => RGt(CurPos.amount, Zero)
               /\ (~SaysBuy /\ Flat(PrePos.amount)) => RLt(CurPos.amount, Zero)

(* C28: close_position for a symbol whose position exists and is flat      *)
(* (amount == 0.0) returns without raising, executes no trade, and leaves  *)
(* balance_usd and the history unchanged.                                  *)
CloseOnFlatReturns ==
    (/\ last.op = "close_position"
     /\ last.symbol \in DOMAIN last.pre.positions
     /\ PrePos.amount = Zero) =>
        /\ ~last.raised
        /\ data.balance_usd = last.pre.balance_usd
        /\ data.history = last.pre.history

(* C29: after every successful execute_strategy the position that carries *)
(* the newly attached exit rules has the direction of the action: amount > *)
(* 0 after a BUY and amount < 0 after a SELL, whatever the symbol held     *)
(* before the call.                                                        *)
StrategyPositionHasDirection ==
    (last.op = "execute_strategy" /\ last.ok) =>
        /\ last.msg = "Bought" => RGt(CurPos.amount, Zero)
        /\ last.msg = "Sold" => RLt(CurPos.amount, Zero)

(* C30: exit rules never outlive the side they were attached to: a        *)
(* stop_loss, take_profit, trailing_stop_percent or scaling target that a  *)
(* position carries was attached while the position had its current sign.  *)
(* Rules are attached by execute_strategy alone, after its trade; stated   *)
(* on every direct buy or sell that gives the position a new side, across  *)
(* zero or from flat: the position then carries no rule.                   *)
RulesDieWithSide ==
    (last.op \in {"buy", "sell"} /\ last.ok
        /\ (Crossed \/ Flat(PrePos.amount))
        /\ ~Flat(CurPos.amount)) =>
        RulesOf(CurPos) = Rules(None, None, None, <<>>)

====
